---- MODULE Spec2Model ----
(***************************************************************************)
(* A model of libadblockplus' host/script bridge (POSIX build):            *)
(*   - DefaultFileSystemSync: the blocking file engine and its base path,  *)
(*   - DefaultFileSystem: the adapter that runs each request on a detached *)
(*     thread and reports through a completion callback,                   *)
(*   - JsEngine: callback registration through a weak reference, the        *)
(*     engine's lifetime, the Context lock of its operations, Evaluate and *)
(*     its JsError, the three collaborators and their lazy defaults,       *)
(*   - JsValue: kinds, object operations and tolerant coercions.           *)
(* Strings are sequences; the empty error message is the empty sequence.   *)
(***************************************************************************)
EXTENDS Integers, Sequences, FiniteSets, TLC

\* ------------------------------------------------------------------ bounds
\* number of request slots (detached worker threads) of the adapter
NumReq == 2
\* number of worker threads that exist at the same time
MaxInFlight == 1
\* longest buffer handed to Write or stored in a file initially
MaxDataLen == 1
\* longest path string handed to SetBasePath and Resolve
MaxPathLen == 3
\* number of JsEngine objects created
NumEngines == 2
\* number of callback registrations
NumReg == 2
\* number of callback invocations running at the same time
NumInv == 1
\* number of JsValue objects alive per engine
MaxValues == 1
\* deepest nesting of engine calls on one thread: a native callback that
\* runs inside Evaluate calls the engine again
MaxDepth == 2

\* ------------------------------------------------------------- vocabulary
PATH_SEPARATOR == "/"
Chars == {PATH_SEPARATOR, "a"}
\* a byte that is no path character: what an out-of-range read may deliver
NUL == "0"
Bytes == {7}
MSEC_IN_SEC == 1000
NSEC_IN_MSEC == 1000000

StringsOver(alphabet, n) == UNION {[1..k -> alphabet] : k \in 0..n}
PathStrings == StringsOver(Chars, MaxPathLen)
Data == StringsOver(Bytes, MaxDataLen)

\* the files the adapter's requests name; their place in the tree is part
\* of the file-system state
Paths == {"f", "g"}
Reqs == 1..NumReq
Ops == {"Read", "Write", "Move", "Remove", "Stat"}

VARIABLES
  fs,        \* the storage backend: path -> node
  req,       \* request slot -> the worker thread's locals and position
  track,     \* history per path: an undisturbed Write followed by a Read
  aborted,   \* std::terminate was called (exception left a detached thread)
  basePath,  \* DefaultFileSystemSync::basePath
  pathCall,  \* the last SetBasePath / Resolve call and what it produced
  engine,    \* JsEngine id -> who holds a shared_ptr to it
  reg,       \* callback registration -> the weak_ptr<JsEngine> it stores
  inv,       \* callback invocation -> its position and the engine it got
  lockOwner, \* the thread that holds the isolate's v8::Locker, if any
  thr,       \* host thread -> its stack of engine calls and its last result
  collab,    \* the engine's fileSystem, webRequest and errorCallback members
  made,      \* collaborator -> number of default objects constructed for it
  lastSet,   \* collaborator -> the object of the last accepted Set, if any
  getter,    \* host thread -> its position in a Get call
  collabCall, \* the last Get / Set call that ended and what it gave
  handle,    \* a JsValue: the script value it refers to and its properties
  valCall,   \* the last operation on the JsValue and how it ended
  adapter    \* the DefaultFileSystem object: its syncImpl, and its misuse

fsVars == <<fs, req, track, aborted>>
pathVars == <<basePath, pathCall>>
engVars == <<engine, reg, inv>>
lockVars == <<lockOwner, thr>>
collabVars == <<collab, made, lastSet, getter, collabCall>>
valVars == <<handle, valCall>>
lifeVars == <<adapter>>
\* what the actions of one component leave alone
outsideFs == <<pathVars, engVars, lockVars, collabVars, valVars>>
exceptFs == <<outsideFs, lifeVars>>
exceptPath == <<fsVars, engVars, lockVars, collabVars, valVars, lifeVars>>
exceptEng == <<fsVars, pathVars, lockVars, collabVars, valVars, lifeVars>>
exceptLock == <<fsVars, pathVars, engVars, collabVars, valVars, lifeVars>>
exceptCollab == <<fsVars, pathVars, engVars, lockVars, valVars, lifeVars>>
exceptVal == <<fsVars, pathVars, engVars, lockVars, collabVars, lifeVars>>
vars == <<fs, req, track, aborted, basePath, pathCall, engine, reg, inv,
          lockOwner, thr, collab, made, lastSet, getter, collabCall,
          handle, valCall, adapter>>

\* ============================================================ base path
NoCall == [op |-> "none", arg |-> <<>>, base |-> <<>>, result |-> <<>>,
           status |-> "ok"]

\* *basePath.rbegin(): the last character; on the empty string the read is
\* out of range and delivers whatever byte oob the build finds there
LastChar(s, oob) == IF Len(s) > 0 THEN s[Len(s)] ELSE oob

IsRelative(path) == Len(path) > 0 /\ path[1] # PATH_SEPARATOR

\* Resolve without the test for an absolute path
ResolveAlwaysJoins(base, path) ==
  IF base = <<>>
  THEN path
  ELSE base \o <<PATH_SEPARATOR>> \o path

Resolve(base, path) ==
  IF base = <<>>
  THEN path
  ELSE IF IsRelative(path)
       THEN base \o <<PATH_SEPARATOR>> \o path
       ELSE path

\* basePath = path; if the last character is the separator, resize(size-1).
\* On the empty string size()-1 wraps around and resize throws length_error.
SetBasePath(path) ==
  \E oob \in {PATH_SEPARATOR, NUL} :
    IF LastChar(path, oob) = PATH_SEPARATOR
    THEN IF Len(path) = 0
         THEN /\ basePath' = path
              /\ pathCall' = [op |-> "SetBasePath", arg |-> path, base |-> path,
                              result |-> <<>>, status |-> "length_error"]
         ELSE /\ basePath' = SubSeq(path, 1, Len(path) - 1)
              /\ pathCall' = [op |-> "SetBasePath", arg |-> path,
                              base |-> SubSeq(path, 1, Len(path) - 1),
                              result |-> <<>>, status |-> "ok"]
    ELSE /\ basePath' = path
         /\ pathCall' = [op |-> "SetBasePath", arg |-> path, base |-> path,
                         result |-> <<>>, status |-> "ok"]

\* DefaultFileSystem::Resolve forwards to the engine's Resolve
AdapterResolve(path) ==
  /\ pathCall' = [op |-> "Resolve", arg |-> path, base |-> basePath,
                  result |-> Resolve(basePath, path), status |-> "ok"]
  /\ UNCHANGED basePath

DoSetBasePath ==
  \E path \in PathStrings : SetBasePath(path) /\ UNCHANGED exceptPath
DoResolve ==
  \E path \in PathStrings : AdapterResolve(path) /\ UNCHANGED exceptPath

\* ===================================================== the storage backend
Absent == [kind |-> "absent", data |-> <<>>]
Dir == [kind |-> "dir", data |-> <<>>]
\* a path below something that is no directory: every access gives ENOTDIR
NotDir == [kind |-> "notdir", data |-> <<>>]
File(d) == [kind |-> "file", data |-> d]
Nodes == {Absent, Dir, NotDir} \cup {File(d) : d \in Data}

\* st_mtim of every existing node, as stat(2) reports it
MTime == [tv_sec |-> 1, tv_nsec |-> 2500000]

\* StatResult(): the default, all false and zero
DefaultStat == [exists |-> FALSE, isFile |-> FALSE, isDirectory |-> FALSE,
                lastModified |-> 0]

\* std::runtime_error(message + " (" + strerror(errno) + ")")
RuntimeErrorWithErrno(message, errno) == message \o <<" (", errno, ")">>

\* what a call of the engine leaves behind: the backend, whether it threw
\* ("no", "std"), the exception's what(), the value returned, and errno
Outcome(f, threw, what, buf, stat, errno) ==
  [fs |-> f, threw |-> threw, what |-> what, buf |-> buf, stat |-> stat,
   errno |-> errno]

\* errno of open(2) for reading / stat(2) on a node
AccessErrno(node) ==
  CASE node.kind = "absent" -> "ENOENT"
    [] node.kind = "notdir" -> "ENOTDIR"
    [] OTHER -> "0"

\* DefaultFileSystemSync::Read. A directory opens for reading, but its size
\* is no buffer size: constructing the IOBuffer throws std::length_error.
SyncRead(f, path) ==
  CASE f[path].kind = "file" ->
         Outcome(f, "no", <<>>, f[path].data, DefaultStat, "0")
    [] f[path].kind = "dir" ->
         Outcome(f, "std", <<"std::length_error">>, <<>>, DefaultStat, "EISDIR")
    [] OTHER ->
         Outcome(f, "std",
                 RuntimeErrorWithErrno(<<"Failed to open ", path>>,
                                       AccessErrno(f[path])),
                 <<>>, DefaultStat, AccessErrno(f[path]))

\* DefaultFileSystemSync::Write: opens with truncation and writes; the
\* stream's state is never looked at, so nothing is thrown. n is the number
\* of bytes the OS accepts (less than Len(data) on a full disk).
SyncWrite(f, path, data, n) ==
  CASE f[path].kind \in {"file", "absent"} ->
         Outcome([f EXCEPT ![path] = File(SubSeq(data, 1, n))], "no", <<>>,
                 <<>>, DefaultStat, IF n < Len(data) THEN "ENOSPC" ELSE "0")
    [] f[path].kind = "dir" ->
         Outcome(f, "no", <<>>, <<>>, DefaultStat, "EISDIR")
    [] OTHER ->
         Outcome(f, "no", <<>>, <<>>, DefaultStat, "ENOTDIR")

\* errno of rename(2)
RenameErrno(f, from, to) ==
  CASE f[from].kind = "notdir" \/ f[to].kind = "notdir" -> "ENOTDIR"
    [] f[from].kind = "absent" -> "ENOENT"
    [] f[from].kind = "file" /\ f[to].kind = "dir" -> "EISDIR"
    [] f[from].kind = "dir" /\ f[to].kind = "file" -> "ENOTDIR"
    [] OTHER -> "0"

\* DefaultFileSystemSync::Move
SyncMove(f, from, to) ==
  IF RenameErrno(f, from, to) # "0"
  THEN Outcome(f, "std",
               RuntimeErrorWithErrno(<<"Failed to move ", from, " to ", to>>,
                                     RenameErrno(f, from, to)),
               <<>>, DefaultStat, RenameErrno(f, from, to))
  ELSE Outcome(IF from = to THEN f
               ELSE [f EXCEPT ![to] = f[from], ![from] = Absent],
               "no", <<>>, <<>>, DefaultStat, "0")

\* DefaultFileSystemSync::Remove
SyncRemove(f, path) ==
  IF AccessErrno(f[path]) # "0"
  THEN Outcome(f, "std",
               RuntimeErrorWithErrno(<<"Failed to remove ", path>>,
                                     AccessErrno(f[path])),
               <<>>, DefaultStat, AccessErrno(f[path]))
  ELSE Outcome([f EXCEPT ![path] = Absent], "no", <<>>, <<>>, DefaultStat, "0")

\* DefaultFileSystemSync::Stat, the branch built outside Windows
SyncStat(f, path) ==
  IF AccessErrno(f[path]) # "0"
  THEN IF AccessErrno(f[path]) = "ENOENT"
       THEN Outcome(f, "no", <<>>, <<>>, DefaultStat, "ENOENT")
       ELSE Outcome(f, "std",
                    RuntimeErrorWithErrno(<<"Unable to stat ", path>>,
                                          AccessErrno(f[path])),
                    <<>>, DefaultStat, AccessErrno(f[path]))
  ELSE Outcome(f, "no", <<>>, <<>>,
               [exists |-> TRUE,
                isFile |-> f[path].kind = "file",
                isDirectory |-> f[path].kind = "dir",
                lastModified |-> MTime.tv_sec * MSEC_IN_SEC
                                 + MTime.tv_nsec \div NSEC_IN_MSEC],
               "0")

\* the engine call a worker makes for its request
SyncCall(f, r, n) ==
  CASE r.op = "Read" -> SyncRead(f, r.path)
    [] r.op = "Write" -> SyncWrite(f, r.path, r.data, n)
    [] r.op = "Move" -> SyncMove(f, r.path, r.to)
    [] r.op = "Remove" -> SyncRemove(f, r.path)
    [] OTHER -> SyncStat(f, r.path)

\* the text of the catch (...) branch of each operation
UnknownError(r) ==
  CASE r.op = "Read" -> <<"Unknown error while reading from ", r.path>>
    [] r.op = "Write" -> <<"Unknown error while writing to ", r.path>>
    [] r.op = "Move" -> <<"Unknown error while moving ", r.path, " to ", r.to>>
    [] r.op = "Remove" -> <<"Unknown error while removing ", r.path>>
    [] OTHER -> <<"Unknown error while calling stat on ", r.path>>

\* ============================================== DefaultFileSystem (adapter)
\* a callback invocation: the arguments the callback received
Invocation(err, buf, stat) == [err |-> err, buf |-> buf, stat |-> stat]

IdleReq == [pc |-> "idle", site |-> "none", op |-> "none", path |-> "f",
            to |-> "f", data |-> <<>>, error |-> <<>>, buf |-> <<>>,
            stat |-> DefaultStat, threw |-> "none", errno |-> "none",
            cbs |-> <<>>, calls |-> 0]

\* what() of a std::exception the host's callback throws
CallbackWhat == <<"callback failed">>

NoTrack == [st |-> "none", by |-> 0, data |-> <<>>]

InFlight(r) == r.pc \in {"spawned", "cbTry", "cbFinal", "exit"}
Touches(r, p) == r.op # "none" /\ (r.path = p \/ r.to = p)

\* slots are taken in order: which slot a request gets is no choice
InOrder(r) == IF r = 1 THEN TRUE ELSE req[r - 1].pc # "idle"

\* the machine has room for another worker thread
RoomForWorker == Cardinality({o \in Reqs : InFlight(req[o])}) < MaxInFlight

\* the history of path x after request r (op on p and q, data d) is dispatched
TrackAfterDispatch(x, r, op, p, q, d) ==
  IF x \notin {p, q}
  THEN track[x]
  ELSE IF op = "Write" /\ \A o \in Reqs : ~(InFlight(req[o]) /\ Touches(req[o], x))
       THEN [st |-> "writing", by |-> r, data |-> d]
       ELSE IF op = "Read" /\ track[x].st = "written"
            THEN [st |-> "reading", by |-> r, data |-> track[x].data]
            ELSE NoTrack

\* Dispatch that makes the engine call on the calling thread and lets the
\* engine's exception leave the call
DispatchInline(r, op, p, q, d) ==
  /\ ~aborted
  /\ req[r].pc = "idle"
  /\ InOrder(r)
  /\ RoomForWorker
  /\ (op = "Move" \/ q = p)
  /\ (op = "Write" \/ d = <<>>)
  /\ LET rq == [IdleReq EXCEPT !.op = op, !.path = p, !.to = q, !.data = d]
         o == SyncCall(fs, rq, Len(d))
     IN /\ req' = [req EXCEPT ![r] =
                     [rq EXCEPT !.pc = IF o.threw = "std" THEN "nothread"
                                       ELSE "cbFinal",
                                !.site = IF o.threw = "std" THEN "engine_error"
                                         ELSE "returned",
                                !.threw = o.threw, !.errno = o.errno]]
        /\ fs' = o.fs
  /\ track' = [x \in Paths |-> TrackAfterDispatch(x, r, op, p, q, d)]
  /\ UNCHANGED aborted

\* DefaultFileSystem::Read/Write/Move/Remove/Stat up to the return to the
\* caller: the lambda captures its arguments, the thread is created and
\* detached, nothing else happens on the calling thread
Dispatch(r, op, p, q, d) ==
  /\ ~aborted
  /\ req[r].pc = "idle"
  /\ InOrder(r)
  /\ RoomForWorker
  /\ (op = "Move" \/ q = p)
  /\ (op = "Write" \/ d = <<>>)
  /\ req' = [req EXCEPT ![r] = [IdleReq EXCEPT !.pc = "spawned",
                                               !.site = "returned",
                                               !.op = op, !.path = p,
                                               !.to = q, !.data = d]]
  /\ track' = [x \in Paths |-> TrackAfterDispatch(x, r, op, p, q, d)]
  /\ UNCHANGED <<fs, aborted>>

\* the std::thread constructor cannot start a thread: std::system_error at
\* the call site, no worker, no callback
ThreadFail(r) ==
  /\ ~aborted
  /\ req[r].pc = "idle"
  /\ InOrder(r)
  /\ req' = [req EXCEPT ![r] = [IdleReq EXCEPT !.pc = "nothread",
                                               !.site = "system_error"]]
  /\ UNCHANGED <<fs, track, aborted>>

\* EngineCall whose catch (...) clause returns without calling back
EngineCallDropsUnknown(r, n, fault) ==
  /\ ~aborted
  /\ req[r].pc = "spawned"
  /\ LET o == SyncCall(fs, req[r], n) IN
       IF fault
       THEN /\ req' = [req EXCEPT ![r].pc = "exit", ![r].threw = "other"]
            /\ fs' = fs
       ELSE IF o.threw = "std"
            THEN /\ req' = [req EXCEPT ![r].pc = "cbFinal", ![r].threw = "std",
                                       ![r].errno = o.errno,
                                       ![r].error = o.what]
                 /\ fs' = o.fs
            ELSE /\ req' = [req EXCEPT
                              ![r].pc = IF req[r].op \in {"Read", "Stat"}
                                        THEN "cbTry" ELSE "cbFinal",
                              ![r].threw = "no", ![r].errno = o.errno,
                              ![r].buf = o.buf, ![r].stat = o.stat]
                 /\ fs' = o.fs
  /\ UNCHANGED <<track, aborted>>

\* the worker's try block up to the engine's return or throw, and the catch
\* clauses. fault: the injected engine throws something that is no
\* std::exception. Read and Stat go on to the callback inside the try block.
EngineCall(r, n, fault) ==
  /\ ~aborted
  /\ req[r].pc = "spawned"
  /\ LET o == SyncCall(fs, req[r], n) IN
       IF fault
       THEN /\ req' = [req EXCEPT ![r].pc = "cbFinal", ![r].threw = "other",
                                  ![r].error = UnknownError(req[r])]
            /\ fs' = fs
       ELSE IF o.threw = "std"
            THEN /\ req' = [req EXCEPT ![r].pc = "cbFinal", ![r].threw = "std",
                                       ![r].errno = o.errno,
                                       ![r].error = o.what]
                 /\ fs' = o.fs
            ELSE /\ req' = [req EXCEPT
                              ![r].pc = IF req[r].op \in {"Read", "Stat"}
                                        THEN "cbTry" ELSE "cbFinal",
                              ![r].threw = "no", ![r].errno = o.errno,
                              ![r].buf = o.buf, ![r].stat = o.stat]
                 /\ fs' = o.fs
  /\ UNCHANGED <<track, aborted>>

\* Read and Stat: callback(result, error) inside the try block, then return.
\* raise: what the callback does ("returns", throws "std" or "other"); a
\* throw lands in the catch clauses of the same try block.
CallbackTry(r, raise) ==
  /\ ~aborted
  /\ req[r].pc = "cbTry"
  /\ req' = [req EXCEPT
               ![r].cbs = Append(@, Invocation(req[r].error, req[r].buf,
                                               req[r].stat)),
               ![r].calls = @ + 1,
               ![r].pc = IF raise = "returns" THEN "exit" ELSE "cbFinal",
               ![r].error = CASE raise = "returns" -> @
                              [] raise = "std" -> CallbackWhat
                              [] OTHER -> UnknownError(req[r])]
  /\ UNCHANGED <<fs, track, aborted>>

\* the callback after the catch clauses: callback(error) for Write, Move and
\* Remove, callback(IOBuffer(), error) and callback(StatResult(), error) for
\* Read and Stat. An exception it throws leaves the thread: std::terminate.
CallbackFinal(r, raise) ==
  /\ ~aborted
  /\ req[r].pc = "cbFinal"
  /\ req' = [req EXCEPT
               ![r].cbs = Append(@, Invocation(req[r].error, <<>>, DefaultStat)),
               ![r].calls = @ + 1,
               ![r].pc = IF raise THEN "terminate" ELSE "exit"]
  /\ aborted' = raise
  /\ track' = [x \in Paths |->
                 IF track[x].by = r /\ track[x].st = "writing"
                 THEN IF req[r].error = <<>>
                      THEN [track[x] EXCEPT !.st = "written"]
                      ELSE NoTrack
                 ELSE track[x]]
  /\ fs' = fs

\* the lambda returns: its captures (path, data, callback) and its locals
\* are destroyed and the detached thread ends
ThreadExit(r) ==
  /\ ~aborted
  /\ req[r].pc = "exit"
  /\ req' = [req EXCEPT ![r] = [IdleReq EXCEPT !.pc = "done",
                                               !.site = req[r].site,
                                               !.calls = req[r].calls]]
  /\ UNCHANGED <<fs, track, aborted>>

\* DefaultFileSystem::DefaultFileSystem: the adapter owns its engine through
\* the unique_ptr syncImpl; usedFreed records that a worker has gone through
\* `this` after the adapter was destroyed
LiveAdapter == [syncImpl |-> "owned", usedFreed |-> FALSE]
AdapterAlive == adapter.syncImpl = "owned"

\* the implicit ~DefaultFileSystem: syncImpl frees the engine; the detached
\* workers are neither joined nor told
DestroyAdapter ==
  /\ ~aborted
  /\ AdapterAlive
  /\ adapter' = [adapter EXCEPT !.syncImpl = "freed"]
  /\ UNCHANGED fsVars

\* a worker whose lambda captured `this` reaches syncImpl->... after the
\* adapter was destroyed: a read of freed memory. The build either still
\* finds the engine there and the call runs as before (crash = FALSE), or
\* the process dies in the dereference
DanglingEngineCall(r, n, fault, crash) ==
  /\ ~AdapterAlive
  /\ adapter' = [adapter EXCEPT !.usedFreed = TRUE]
  /\ IF crash
     THEN /\ ~aborted
          /\ req[r].pc = "spawned"
          /\ req' = [req EXCEPT ![r].pc = "terminate"]
          /\ aborted' = TRUE
          /\ UNCHANGED <<fs, track>>
     ELSE EngineCall(r, n, fault)

\* the backends a session starts on
InitFs == {f \in [Paths -> Nodes] : f["f"].kind = "file"
                                    /\ f["g"].kind \in {"dir", "notdir"}}

InitPath == basePath = <<>> /\ pathCall = NoCall
InitAdapter ==
  /\ fs \in InitFs
  /\ req = [r \in Reqs |-> IdleReq]
  /\ track = [x \in Paths |-> NoTrack]
  /\ aborted = FALSE
  /\ adapter = LiveAdapter

DoDispatch ==
  \E r \in Reqs, op \in Ops, p \in Paths, q \in Paths, d \in Data :
    Dispatch(r, op, p, q, d) /\ UNCHANGED exceptFs
DoThreadFail == \E r \in Reqs : ThreadFail(r) /\ UNCHANGED exceptFs
DoEngineCall(r) ==
  \E n \in 0..Len(req[r].data), fault \in BOOLEAN :
    EngineCall(r, n, fault) /\ UNCHANGED exceptFs
DoCallbackTry(r) ==
  \E raise \in {"returns", "std", "other"} :
    CallbackTry(r, raise) /\ UNCHANGED exceptFs
DoCallbackFinal(r) ==
  \E raise \in BOOLEAN : CallbackFinal(r, raise) /\ UNCHANGED exceptFs
DoThreadExit(r) == ThreadExit(r) /\ UNCHANGED exceptFs
DoDestroyAdapter == DestroyAdapter /\ UNCHANGED outsideFs
DoDanglingEngineCall(r) ==
  \E n \in 0..Len(req[r].data), fault \in BOOLEAN, crash \in BOOLEAN :
    DanglingEngineCall(r, n, fault, crash) /\ UNCHANGED outsideFs
Worker(r) ==
  DoEngineCall(r) \/ DoCallbackTry(r) \/ DoCallbackFinal(r) \/ DoThreadExit(r)

\* ===================================================== JsEngine callbacks
Engines == 1..NumEngines
Regs == 1..NumReg
Invs == 1..NumInv

NoEngine == 0
Unborn == [state |-> "unborn", host |-> FALSE, values |-> 0]
IdleInv == [pc |-> "idle", reg |-> 1, engine |-> NoEngine]

\* the JsEnginePtr a running callback got from FromArguments
HeldByCallbacks(invs, e) ==
  Cardinality({i \in Invs : invs[i].pc \in {"convert", "native"}
                            /\ invs[i].engine = e})

\* a use count in which a registration owns the engine as well
StrongCountWithRegs(engs, invs, e) ==
  (IF engs[e].host THEN 1 ELSE 0) + engs[e].values + HeldByCallbacks(invs, e)
  + Cardinality({k \in Regs : reg[k] = e})

\* use_count of the engine's shared_ptr: the host's JsEnginePtr, one per
\* JsValue, one per callback running on it; the weak_ptr of a registration
\* does not count
StrongCount(engs, invs, e) ==
  (IF engs[e].host THEN 1 ELSE 0) + engs[e].values + HeldByCallbacks(invs, e)

\* the JsEngine object exists: it was created and not deleted
Alive(e) == engine[e].state = "alive"
Destroyed(e) == engine[e].state = "destroyed"

\* a shared_ptr was released: an engine whose use count reached zero is
\* deleted, for good
AfterRelease(engs, invs) ==
  [e \in Engines |->
     IF engs[e].state = "alive" /\ StrongCount(engs, invs, e) = 0
     THEN [engs[e] EXCEPT !.state = "destroyed"]
     ELSE engs[e]]

\* weak_ptr<JsEngine>::lock(): the engine, or an empty pointer once expired
Lock(e) == IF Alive(e) THEN e ELSE NoEngine

\* JsEngine::New: the host gets the only JsEnginePtr
New(e) ==
  /\ engine[e].state = "unborn"
  /\ IF e = 1 THEN TRUE ELSE engine[e - 1].state # "unborn"
  /\ engine' = [engine EXCEPT ![e] = [state |-> "alive", host |-> TRUE,
                                      values |-> 0]]
  /\ UNCHANGED <<reg, inv>>

\* JsEngine::NewCallback on engine e: a weak_ptr to e is stored (and leaked)
\* as the function's data; the JsValue returned holds shared_from_this()
NewCallback(e, k) ==
  /\ Alive(e)
  /\ reg[k] = NoEngine
  /\ IF k = 1 THEN TRUE ELSE reg[k - 1] # NoEngine
  /\ engine[e].values < MaxValues
  /\ reg' = [reg EXCEPT ![k] = e]
  /\ engine' = [engine EXCEPT ![e].values = @ + 1]
  /\ UNCHANGED inv

\* Evaluate, NewValue or NewObject on engine e returns: the new JsValue holds
\* shared_from_this()
NewJsValue(e) ==
  /\ Alive(e)
  /\ engine[e].values < MaxValues
  /\ engine' = [engine EXCEPT ![e].values = @ + 1]
  /\ UNCHANGED <<reg, inv>>

\* the host drops its JsEnginePtr
ReleaseHost(e) ==
  /\ engine[e].host
  /\ engine' = AfterRelease([engine EXCEPT ![e].host = FALSE], inv)
  /\ UNCHANGED <<reg, inv>>

\* a JsValue of engine e is destroyed
ReleaseValue(e) ==
  /\ engine[e].values > 0
  /\ engine' = AfterRelease([engine EXCEPT ![e].values = @ - 1], inv)
  /\ UNCHANGED <<reg, inv>>

\* the script runtime calls the function registered as k
Invoke(i, k) ==
  /\ inv[i].pc = "idle"
  /\ reg[k] # NoEngine
  /\ inv' = [inv EXCEPT ![i] = [pc |-> "fromArgs", reg |-> k,
                                engine |-> NoEngine]]
  /\ UNCHANGED <<engine, reg>>

\* FromArguments without the test of the locked pointer
FromArgumentsUnchecked(i) ==
  /\ inv[i].pc = "fromArgs"
  /\ inv' = [inv EXCEPT ![i].engine = reg[inv[i].reg], ![i].pc = "convert"]
  /\ UNCHANGED <<engine, reg>>

\* JsEngine::FromArguments: lock the stored weak_ptr; throw
\* std::runtime_error("Oops, our JsEngine is gone, ...") if it is empty
FromArguments(i) ==
  /\ inv[i].pc = "fromArgs"
  /\ inv' = [inv EXCEPT
               ![i].engine = Lock(reg[inv[i].reg]),
               ![i].pc = IF Lock(reg[inv[i].reg]) = NoEngine
                         THEN "gone" ELSE "convert"]
  /\ UNCHANGED <<engine, reg>>

\* JsEngine::ConvertArguments on the engine FromArguments returned: one
\* JsValue per argument of the script's call (n of them), each holding
\* shared_from_this(), for the native function to keep as long as it likes
ConvertArguments(i, n) ==
  /\ inv[i].pc = "convert"
  /\ engine[inv[i].engine].values + n <= MaxValues
  /\ inv' = [inv EXCEPT ![i].pc = "native"]
  /\ engine' = [engine EXCEPT ![inv[i].engine].values = @ + n]
  /\ UNCHANGED reg

\* the native function returns (or the failed invocation is over): the
\* callback's JsEnginePtr goes out of scope
Return(i) ==
  /\ inv[i].pc \in {"native", "gone"}
  /\ inv' = [inv EXCEPT ![i] = IdleInv]
  /\ engine' = AfterRelease(engine, inv')
  /\ UNCHANGED reg

InitEngines ==
  /\ engine = [e \in Engines |-> Unborn]
  /\ reg = [k \in Regs |-> NoEngine]
  /\ inv = [i \in Invs |-> IdleInv]

DoNew == \E e \in Engines : New(e) /\ UNCHANGED exceptEng
DoNewCallback ==
  \E e \in Engines, k \in Regs : NewCallback(e, k) /\ UNCHANGED exceptEng
DoReleaseHost == \E e \in Engines : ReleaseHost(e) /\ UNCHANGED exceptEng
DoReleaseValue ==
  \E e \in Engines : ReleaseValue(e) /\ UNCHANGED exceptEng
DoInvoke ==
  \E i \in Invs, k \in Regs : Invoke(i, k) /\ UNCHANGED exceptEng
DoFromArguments == \E i \in Invs : FromArguments(i) /\ UNCHANGED exceptEng
DoConvertArguments ==
  \E i \in Invs, n \in {0, 1} :
    ConvertArguments(i, n) /\ UNCHANGED exceptEng
DoNewJsValue == \E e \in Engines : NewJsValue(e) /\ UNCHANGED exceptEng
DoReturn == \E i \in Invs : Return(i) /\ UNCHANGED exceptEng

\* ================================================================ JsValue
Kinds == {"undefined", "null", "string", "bool", "number", "object", "array",
          "function"}
\* a script value: throws says that its toString and valueOf throw
Value(kind, payload, throws) ==
  [kind |-> kind, payload |-> payload, throws |-> throws]
Primitives ==
  {Value("undefined", "", FALSE), Value("null", "", FALSE),
   Value("string", "", FALSE), Value("string", "123", FALSE),
   Value("bool", TRUE, FALSE), Value("bool", FALSE, FALSE),
   Value("number", 0, FALSE), Value("number", 123, FALSE)}
\* new Foo() with toString giving "foo" and valueOf giving 123, or both
\* throwing; [5, 8, 12]; a function of two parameters
Objects ==
  {Value("object", "Foo", FALSE), Value("object", "Foo", TRUE),
   Value("array", <<5, 8, 12>>, FALSE), Value("function", "Function", FALSE)}
Values == Primitives \cup Objects
PropNames == {"foo", "x"}
UndefinedValue == Value("undefined", "", FALSE)

IsUndefined(v) == v.kind = "undefined"
IsNull(v) == v.kind = "null"
IsString(v) == v.kind = "string"
IsBool(v) == v.kind = "bool"
IsNumber(v) == v.kind = "number"
\* typeof's idea of an object: null is one, a function is not
IsObjectByTypeof(v) == v.kind \in {"null", "object", "array"}
IsObject(v) == v.kind \in {"object", "array", "function"}
IsArray(v) == v.kind = "array"
IsFunction(v) == v.kind = "function"
Answers(v) ==
  <<IsUndefined(v), IsNull(v), IsString(v), IsBool(v), IsNumber(v),
    IsObject(v), IsArray(v), IsFunction(v)>>

\* the decimal text of a number, and the number a text stands for
NumberToString(n) == CASE n = 0 -> "0" [] n = 123 -> "123" [] OTHER -> "NaN"
StringToNumber(str) == CASE str = "123" -> 123 [] OTHER -> 0

\* AsString: the script's string coercion; the empty string when it throws
AsString(v) ==
  CASE v.kind \in {"undefined", "null"} -> v.kind
    [] v.kind = "string" -> v.payload
    [] v.kind = "bool" -> IF v.payload THEN "true" ELSE "false"
    [] v.kind = "number" -> NumberToString(v.payload)
    [] v.kind = "object" -> IF v.throws THEN "" ELSE "foo"
    [] v.kind = "array" -> "5,8,12"
    [] v.kind = "function" -> "function (foo, bar) {}"

\* AsInt: the script's number coercion; 0 when it throws or gives no number
AsInt(v) ==
  CASE v.kind = "string" -> StringToNumber(v.payload)
    [] v.kind = "bool" -> IF v.payload THEN 1 ELSE 0
    [] v.kind = "number" -> v.payload
    [] v.kind = "object" -> IF v.throws THEN 0 ELSE 123
    [] OTHER -> 0

\* AsBool: false for undefined, null, the empty string, zero and false
AsBool(v) ==
  CASE v.kind \in {"undefined", "null"} -> FALSE
    [] v.kind = "string" -> v.payload # ""
    [] v.kind = "bool" -> v.payload
    [] v.kind = "number" -> v.payload # 0
    [] OTHER -> TRUE

\* ================================================= JsEngine context lock
\* two host threads call into the engines: what one thread does while the
\* other is inside the runtime is all that mutual exclusion is about
Threads == {"t1", "t2"}
NoThread == "none"
\* the operations that construct a Context, and Gc, which does not
ContextOps == {"Evaluate", "NewValueString", "NewValueInt", "NewValueBool",
               "NewObject", "NewCallback", "ConvertArguments"}
EngineOps == ContextOps \cup {"Gc"}
\* the coercions of a JsValue, which run script code under a Context too
ValueOps == {"AsString", "AsInt"}
\* the objects whose coercion is studied: toString and valueOf return, or
\* throw
Coerced == {v \in Objects : v.kind = "object"}
FileNames == {"", "a.js"}

\* what the v8::TryCatch of Evaluate holds: nothing, or an exception with or
\* without a v8::Message
NoException ==
  [thrown |-> FALSE, text |-> "", message |-> FALSE, resource |-> "",
   line |-> 0]
\* the resource name of a script compiled without a file name is undefined
ResourceName(filename) == IF filename = "" THEN "undefined" ELSE filename
Caught(filename) ==
  {NoException}
  \cup {[thrown |-> TRUE, text |-> "boom", message |-> FALSE, resource |-> "",
         line |-> 0],
        [thrown |-> TRUE, text |-> "boom", message |-> TRUE,
         resource |-> ResourceName(filename), line |-> 1]}

\* ExceptionToString: the exception's text and, with a message, where
ExceptionToString(c) ==
  <<c.text>> \o (IF c.message THEN <<" at ", c.resource, ":", c.line>>
                 ELSE <<>>)

\* one engine call on a thread's stack
NewFrame(op, filename) ==
  [op |-> op, pc |-> IF op = "Gc" THEN "body" ELSE "context",
   hasLock |-> FALSE, filename |-> filename, caught |-> NoException,
   ran |-> FALSE]
\* how the last call the host made on a thread ended; what a call made by a
\* native callback gives goes to that callback
NoOut ==
  [op |-> "none", kind |-> "none", ran |-> FALSE, text |-> <<>>,
   engine |-> NoEngine, caught |-> NoException]
Out(f, kind, e) ==
  [op |-> f.op, kind |-> kind, ran |-> f.ran,
   text |-> IF kind = "JsError" THEN ExceptionToString(f.caught) ELSE <<>>,
   engine |-> e, caught |-> f.caught]
IdleThread == [stack |-> <<>>, this |-> NoEngine, out |-> NoOut]

Depth(t) == Len(thr[t].stack)
Top(t) == thr[t].stack[Depth(t)]
At(t, pcs) == IF Depth(t) = 0 THEN FALSE ELSE Top(t).pc \in pcs
SetTop(t, f) == [thr EXCEPT ![t].stack[Depth(t)] = f]
\* the thread is between entry and exit of something that works on the
\* isolate: past the Context constructor, or in Gc
InRuntime(t) ==
  \E i \in 1..Depth(t) : thr[t].stack[i].pc # "context"

\* host code on thread t calls an operation of engine e
Call(t, e, op, filename) ==
  /\ Depth(t) = 0
  /\ Alive(e)
  /\ thr' = [thr EXCEPT ![t] = [stack |-> <<NewFrame(op, filename)>>,
                                this |-> e, out |-> NoOut]]
  /\ UNCHANGED lockOwner

\* the script run by Evaluate calls a native callback, which calls an
\* operation of the same engine on this thread
NativeCall(t, op, filename) ==
  /\ At(t, {"running"})
  /\ Depth(t) < MaxDepth
  /\ thr' = [thr EXCEPT ![t].stack = Append(@, NewFrame(op, filename))]
  /\ UNCHANGED lockOwner

\* a Context whose locker unlocks on destruction whether or not it locked
EnterContextOwning(t) ==
  /\ At(t, {"context"})
  /\ lockOwner \in {NoThread, t}
  /\ lockOwner' = t
  /\ thr' = SetTop(t, [Top(t) EXCEPT
                         !.hasLock = TRUE,
                         !.pc = CASE Top(t).op = "Evaluate" -> "compile"
                                  [] Top(t).op \in ValueOps -> "coerce"
                                  [] OTHER -> "body"])

\* Context::Context: v8::Locker blocks until no other thread holds the
\* isolate; on a thread that holds it already it takes nothing and will
\* give nothing back
EnterContext(t) ==
  /\ At(t, {"context"})
  /\ lockOwner \in {NoThread, t}
  /\ lockOwner' = t
  /\ thr' = SetTop(t, [Top(t) EXCEPT
                         !.hasLock = (lockOwner = NoThread),
                         !.pc = CASE Top(t).op = "Evaluate" -> "compile"
                                  [] Top(t).op \in ValueOps -> "coerce"
                                  [] OTHER -> "body"])

\* the call ends as o: its Context, if it has one, is destroyed and the
\* locker that locked unlocks
LeaveContext(t, o) ==
  /\ lockOwner' = IF Top(t).hasLock THEN NoThread ELSE lockOwner
  /\ thr' = [thr EXCEPT ![t].stack = SubSeq(@, 1, Len(@) - 1),
                        ![t].this = IF Depth(t) = 1 THEN NoEngine ELSE @,
                        ![t].out = IF Depth(t) = 1 THEN o ELSE @]

\* a JsError that leaves Evaluate with the Context left standing
ThrowJsErrorLeaking(t) ==
  /\ thr' = [thr EXCEPT ![t].stack = SubSeq(@, 1, Len(@) - 1),
                        ![t].this = IF Depth(t) = 1 THEN NoEngine ELSE @,
                        ![t].out = Out(Top(t), "JsError", NoEngine)]
  /\ UNCHANGED lockOwner

\* throw JsError(exception, message): the stack is unwound through the
\* Context of Evaluate
ThrowJsError(t) == LeaveContext(t, Out(Top(t), "JsError", NoEngine))

\* CompileScript(source, filename)
CompileScript(t, c) ==
  /\ At(t, {"compile"})
  /\ thr' = SetTop(t, [Top(t) EXCEPT !.pc = "checkCompile", !.caught = c])
  /\ UNCHANGED lockOwner

\* a CheckTryCatch that lets a failed compilation pass
CheckTryCatchAfterRunOnly(t) ==
  /\ At(t, {"checkCompile", "checkRun"})
  /\ IF Top(t).pc = "checkCompile"
     THEN thr' = SetTop(t, [Top(t) EXCEPT !.pc = "run"])
          /\ UNCHANGED lockOwner
     ELSE IF Top(t).caught.thrown
          THEN ThrowJsError(t)
          ELSE LeaveContext(t, Out(Top(t), "JsValue", thr[t].this))

\* CheckTryCatch(tryCatch) after CompileScript and after script->Run(), and
\* what follows it: the next statement of Evaluate, or the JsError
CheckTryCatch(t) ==
  /\ At(t, {"checkCompile", "checkRun"})
  /\ IF Top(t).caught.thrown
     THEN ThrowJsError(t)
     ELSE IF Top(t).pc = "checkCompile"
          THEN thr' = SetTop(t, [Top(t) EXCEPT !.pc = "run"])
               /\ UNCHANGED lockOwner
          ELSE LeaveContext(t, Out(Top(t), "JsValue", thr[t].this))

\* script->Run() begins
Run(t) ==
  /\ At(t, {"run"})
  /\ thr' = SetTop(t, [Top(t) EXCEPT !.pc = "running", !.ran = TRUE])
  /\ UNCHANGED lockOwner

\* script->Run() is over, with or without an exception caught
FinishRun(t, c) ==
  /\ At(t, {"running"})
  /\ thr' = SetTop(t, [Top(t) EXCEPT !.pc = "checkRun", !.caught = c])
  /\ UNCHANGED lockOwner

\* NewValue, NewObject, NewCallback, ConvertArguments return what they
\* built; Gc returns when IdleNotification says there is no more to do
Body(t) ==
  /\ At(t, {"body"})
  /\ LeaveContext(t, Out(Top(t),
                         CASE Top(t).op = "Gc" -> "void"
                           [] Top(t).op = "ConvertArguments" -> "JsValueList"
                           [] OTHER -> "JsValue",
                         IF Top(t).op = "Gc" THEN NoEngine ELSE thr[t].this))

\* a coercion that lets the script's exception through to the host
ValueCoercionPropagating(t, v) ==
  /\ At(t, {"coerce"})
  /\ LeaveContext(t, [op |-> Top(t).op,
                      kind |-> IF v.throws THEN "JsError" ELSE "coerced",
                      ran |-> TRUE,
                      text |-> IF Top(t).op = "AsString" THEN <<AsString(v)>>
                               ELSE <<AsInt(v)>>,
                      engine |-> NoEngine,
                      caught |-> [NoException EXCEPT !.thrown = v.throws]])

\* AsString / AsInt of a JsValue for object v: the script's toString or
\* valueOf runs and what it throws is swallowed
ValueCoercion(t, v) ==
  /\ At(t, {"coerce"})
  /\ LeaveContext(t, [op |-> Top(t).op, kind |-> "coerced", ran |-> TRUE,
                      text |-> IF Top(t).op = "AsString" THEN <<AsString(v)>>
                               ELSE <<AsInt(v)>>,
                      engine |-> NoEngine,
                      caught |-> [NoException EXCEPT !.thrown = v.throws]])

\* every engine exists and is held by the host; no thread is in a call
AllCreated ==
  /\ engine = [e \in Engines |-> [state |-> "alive", host |-> TRUE,
                                  values |-> 0]]
  /\ reg = [k \in Regs |-> NoEngine]
  /\ inv = [i \in Invs |-> IdleInv]
InitThreads ==
  /\ lockOwner = NoThread
  /\ thr = [t \in Threads |-> IdleThread]

DoCall ==
  \E t \in Threads, e \in Engines, op \in EngineOps \cup ValueOps,
     f \in FileNames :
    /\ (op = "Evaluate" \/ f = "")
    /\ Call(t, e, op, f)
    /\ UNCHANGED exceptLock
DoNativeCall ==
  \E t \in Threads, op \in EngineOps \cup ValueOps, f \in FileNames :
    /\ (op = "Evaluate" \/ f = "")
    /\ NativeCall(t, op, f)
    /\ UNCHANGED exceptLock
DoEnterContext == \E t \in Threads : EnterContext(t) /\ UNCHANGED exceptLock
DoCompileScript ==
  \E t \in Threads :
    /\ At(t, {"compile"})
    /\ \E c \in Caught(Top(t).filename) : CompileScript(t, c)
    /\ UNCHANGED exceptLock
DoCheckTryCatch == \E t \in Threads : CheckTryCatch(t) /\ UNCHANGED exceptLock
DoRun == \E t \in Threads : Run(t) /\ UNCHANGED exceptLock
DoFinishRun ==
  \E t \in Threads :
    /\ At(t, {"running"})
    /\ \E c \in Caught(Top(t).filename) : FinishRun(t, c)
    /\ UNCHANGED exceptLock
DoBody == \E t \in Threads : Body(t) /\ UNCHANGED exceptLock
DoValueCoercion ==
  \E t \in Threads, v \in Coerced : ValueCoercion(t, v) /\ UNCHANGED exceptLock

\* ================================================ JsEngine collaborators
Collaborators == {"fileSystem", "webRequest", "errorCallback"}
\* an empty shared_ptr
Null == <<>>
\* the objects the host injects
Injected == {<<"injected", "x">>, <<"injected", "y">>}
\* the n-th object made by new DefaultFileSystem() (DefaultWebRequest, ...)
Default(n) == <<"default", n>>
CannotBeNull(c) ==
  CASE c = "fileSystem" -> "FileSystem cannot be null"
    [] c = "webRequest" -> "WebRequest cannot be null"
    [] c = "errorCallback" -> "ErrorCallback cannot be null"

IdleGetter == [pc |-> "idle", c |-> "fileSystem", constructed |-> FALSE]
NoCollabCall ==
  [op |-> "none", c |-> "fileSystem", arg |-> Null, result |-> Null,
   status |-> "", constructed |-> FALSE, before |-> Null, members |-> <<>>]
NoCallInProgress == \A t \in Threads : getter[t].pc = "idle"

\* GetFileSystem / GetWebRequest / GetErrorCallback is called
BeginGet(t, c) ==
  /\ getter[t].pc = "idle"
  /\ getter' = [getter EXCEPT ![t] = [pc |-> "test", c |-> c,
                                      constructed |-> FALSE]]
  /\ collabCall' = [NoCollabCall EXCEPT !.before = collab[c],
                                        !.members = collab]
  /\ UNCHANGED <<collab, made, lastSet>>

\* a Get that constructs a default whatever the member holds
GetTestAlwaysResets(t) ==
  /\ getter[t].pc = "test"
  /\ getter' = [getter EXCEPT ![t].pc = "reset"]
  /\ UNCHANGED <<collab, made, lastSet, collabCall>>

\* if (!fileSystem)
GetTest(t) ==
  /\ getter[t].pc = "test"
  /\ getter' = [getter EXCEPT ![t].pc = IF collab[getter[t].c] = Null
                                        THEN "reset" ELSE "return"]
  /\ UNCHANGED <<collab, made, lastSet, collabCall>>

\* fileSystem.reset(new DefaultFileSystem())
GetReset(t) ==
  /\ getter[t].pc = "reset"
  /\ made' = [made EXCEPT ![getter[t].c] = @ + 1]
  /\ collab' = [collab EXCEPT ![getter[t].c] = Default(made[getter[t].c] + 1)]
  /\ getter' = [getter EXCEPT ![t].pc = "return", ![t].constructed = TRUE]
  /\ UNCHANGED <<lastSet, collabCall>>

\* return fileSystem
GetReturn(t) ==
  /\ getter[t].pc = "return"
  /\ collabCall' = [collabCall EXCEPT
                      !.op = "Get", !.c = getter[t].c,
                      !.result = collab[getter[t].c], !.status = "ok",
                      !.constructed = getter[t].constructed]
  /\ getter' = [getter EXCEPT ![t] = IdleGetter]
  /\ UNCHANGED <<collab, made, lastSet>>

\* a Set that stores its argument before it tests it
SetStoresFirst(t, c, val) ==
  /\ getter[t].pc = "idle"
  /\ collab' = [collab EXCEPT ![c] = val]
  /\ lastSet' = IF val = Null THEN lastSet ELSE [lastSet EXCEPT ![c] = val]
  /\ collabCall' = [op |-> "Set", c |-> c, arg |-> val, result |-> Null,
                    status |-> IF val = Null THEN CannotBeNull(c) ELSE "ok",
                    constructed |-> FALSE, before |-> collab[c],
                    members |-> collab]
  /\ UNCHANGED <<made, getter>>

\* SetFileSystem / SetWebRequest / SetErrorCallback: throw
\* std::runtime_error on an empty pointer, else assign
Set(t, c, val) ==
  /\ getter[t].pc = "idle"
  /\ collab' = IF val = Null THEN collab ELSE [collab EXCEPT ![c] = val]
  /\ lastSet' = IF val = Null THEN lastSet ELSE [lastSet EXCEPT ![c] = val]
  /\ collabCall' = [op |-> "Set", c |-> c, arg |-> val, result |-> Null,
                    status |-> IF val = Null THEN CannotBeNull(c) ELSE "ok",
                    constructed |-> FALSE, before |-> collab[c],
                    members |-> collab]
  /\ UNCHANGED <<made, getter>>

\* JsEngine::JsEngine leaves the three members empty
InitCollab ==
  /\ collab = [c \in Collaborators |-> Null]
  /\ made = [c \in Collaborators |-> 0]
  /\ lastSet = [c \in Collaborators |-> Null]
  /\ getter = [t \in Threads |-> IdleGetter]
  /\ collabCall = NoCollabCall

\* the calls of a host that uses the engine's collaborators from one thread
\* at a time
DoBeginGet ==
  \E t \in Threads, c \in Collaborators :
    NoCallInProgress /\ BeginGet(t, c) /\ UNCHANGED exceptCollab
DoGetTest == \E t \in Threads : GetTest(t) /\ UNCHANGED exceptCollab
DoGetReset == \E t \in Threads : GetReset(t) /\ UNCHANGED exceptCollab
DoGetReturn == \E t \in Threads : GetReturn(t) /\ UNCHANGED exceptCollab
DoSet ==
  \E t \in Threads, c \in Collaborators, val \in Injected \cup {Null} :
    NoCallInProgress /\ Set(t, c, val) /\ UNCHANGED exceptCollab
\* a host thread enters a Get while another thread may be inside one: the
\* three getters take no lock
DoBeginGetConcurrent ==
  \E t \in Threads, c \in Collaborators :
    BeginGet(t, c) /\ UNCHANGED exceptCollab

\* ------------------------------------------------- operations on a JsValue
\* a JsValue for script value v; a plain object has its property x set
NewHandle(v) ==
  [v |-> v,
   props |-> [n \in PropNames |->
                IF v.kind = "object" /\ n = "x"
                THEN Value("number", 123, FALSE) ELSE UndefinedValue],
   born |-> Answers(v)]
\* what SetProperty is given in the calls studied
PropValues == {Value("bool", FALSE, FALSE), Value("number", 0, FALSE)}
NoValCall ==
  [op |-> "none", status |-> "ok", result |-> <<>>,
   before |-> NewHandle(UndefinedValue)]
\* the operation ends with an exception at the call site
Fails(op) ==
  /\ valCall' = [op |-> op, status |-> "error", result |-> <<>>,
                 before |-> handle]
  /\ UNCHANGED handle
Succeeds(op, result) ==
  valCall' = [op |-> op, status |-> "ok", result |-> result,
              before |-> handle]

\* an AsList that takes every object for a list
AsListOfAnyObject ==
  IF IsObject(handle.v)
  THEN Succeeds("AsList", handle.v.payload) /\ UNCHANGED handle
  ELSE Fails("AsList")

\* AsList: the elements of an array; fails on anything else
AsList ==
  IF IsArray(handle.v)
  THEN Succeeds("AsList", handle.v.payload) /\ UNCHANGED handle
  ELSE Fails("AsList")

\* GetProperty(name): fails on what is no object
GetProperty(name) ==
  IF IsObject(handle.v)
  THEN Succeeds("GetProperty", handle.props[name]) /\ UNCHANGED handle
  ELSE Fails("GetProperty")

\* SetProperty(name, val): fails on what is no object
SetProperty(name, val) ==
  IF IsObject(handle.v)
  THEN /\ Succeeds("SetProperty", <<>>)
       /\ handle' = [handle EXCEPT !.props[name] = val]
  ELSE Fails("SetProperty")

\* GetClass: the constructor's name; fails on what is no object
GetClass ==
  IF IsObject(handle.v)
  THEN /\ Succeeds("GetClass",
                   CASE handle.v.kind = "array" -> "Array"
                     [] OTHER -> handle.v.payload)
       /\ UNCHANGED handle
  ELSE Fails("GetClass")

\* GetOwnPropertyNames: fails on what is no object
GetOwnPropertyNames ==
  IF IsObject(handle.v)
  THEN /\ Succeeds("GetOwnPropertyNames",
                   {n \in PropNames : handle.props[n].kind # "undefined"})
       /\ UNCHANGED handle
  ELSE Fails("GetOwnPropertyNames")

\* Call(params, thisPtr): fails on what is no function
CallFunction ==
  IF IsFunction(handle.v)
  THEN Succeeds("Call", UndefinedValue) /\ UNCHANGED handle
  ELSE Fails("Call")

\* AsString, AsInt, AsBool: never fail
Coerce(op) ==
  /\ Succeeds(op, CASE op = "AsString" -> AsString(handle.v)
                    [] op = "AsInt" -> AsInt(handle.v)
                    [] op = "AsBool" -> AsBool(handle.v))
  /\ UNCHANGED handle

\* Evaluate gave a JsValue for some script value
InitHandle ==
  /\ handle \in {NewHandle(v) : v \in Values}
  /\ valCall = NoValCall
\* no JsValue under study: the specifications of the other components
NoHandle ==
  /\ handle = NewHandle(UndefinedValue)
  /\ valCall = NoValCall

DoAsList == AsList /\ UNCHANGED exceptVal
DoGetProperty == \E n \in PropNames : GetProperty(n) /\ UNCHANGED exceptVal
DoSetProperty ==
  \E n \in PropNames, val \in PropValues :
    SetProperty(n, val) /\ UNCHANGED exceptVal
DoGetClass == GetClass /\ UNCHANGED exceptVal
DoGetOwnPropertyNames == GetOwnPropertyNames /\ UNCHANGED exceptVal
DoCallFunction == CallFunction /\ UNCHANGED exceptVal
DoCoerce ==
  \E op \in {"AsString", "AsInt", "AsBool"} : Coerce(op) /\ UNCHANGED exceptVal

\* ---------------------------------------------------------- specifications
IdleAdapter ==
  /\ fs = [p \in Paths |-> Absent]
  /\ req = [r \in Reqs |-> IdleReq]
  /\ track = [x \in Paths |-> NoTrack]
  /\ aborted = FALSE
  /\ adapter = LiveAdapter

\* the host threads and what they work on, before any call
InitHost == InitThreads /\ InitCollab /\ NoHandle

InitFS == InitAdapter /\ InitPath /\ InitEngines /\ InitHost
NextFS ==
  \/ DoDispatch
  \/ DoThreadFail
  \/ \E r \in Reqs : DoEngineCall(r)
  \/ \E r \in Reqs : DoCallbackTry(r)
  \/ \E r \in Reqs : DoCallbackFinal(r)
  \/ \E r \in Reqs : DoThreadExit(r)
SpecFS == InitFS /\ [][NextFS]_vars

\* every worker thread that exists is eventually scheduled; one backend to
\* start on, every kind of node comes up as requests remove and move files
InitLive ==
  /\ fs = [p \in Paths |-> IF p = "f" THEN File(<<>>) ELSE NotDir]
  /\ req = [r \in Reqs |-> IdleReq]
  /\ track = [x \in Paths |-> NoTrack]
  /\ aborted = FALSE
  /\ adapter = LiveAdapter
  /\ InitPath
  /\ InitEngines
  /\ InitHost
FairSpecFS ==
  InitLive /\ [][NextFS]_vars /\ \A r \in Reqs : WF_vars(Worker(r))

\* a host that may destroy the adapter while requests are in flight; it
\* calls no method of a destroyed adapter, and a worker that gets to its
\* engine call finds the adapter alive or destroyed
InitDestroy == InitLive
NextDestroy ==
  \/ AdapterAlive /\ DoDispatch
  \/ AdapterAlive /\ DoThreadFail
  \/ DoDestroyAdapter
  \/ \E r \in Reqs : AdapterAlive /\ DoEngineCall(r)
  \/ \E r \in Reqs : DoDanglingEngineCall(r)
  \/ \E r \in Reqs : DoCallbackTry(r)
  \/ \E r \in Reqs : DoCallbackFinal(r)
  \/ \E r \in Reqs : DoThreadExit(r)
SpecDestroy == InitDestroy /\ [][NextDestroy]_vars

InitPaths == IdleAdapter /\ InitPath /\ InitEngines /\ InitHost
NextPaths == DoSetBasePath \/ DoResolve
SpecPaths == InitPaths /\ [][NextPaths]_vars

InitEngine == IdleAdapter /\ InitPath /\ InitEngines /\ InitHost
NextEngine ==
  \/ DoNew
  \/ DoNewCallback
  \/ DoNewJsValue
  \/ DoReleaseHost
  \/ DoReleaseValue
  \/ DoInvoke
  \/ DoFromArguments
  \/ DoConvertArguments
  \/ DoReturn
SpecEngine == InitEngine /\ [][NextEngine]_vars

InitLock == IdleAdapter /\ InitPath /\ AllCreated /\ InitHost
NextLock ==
  \/ DoCall
  \/ DoNativeCall
  \/ DoEnterContext
  \/ DoCompileScript
  \/ DoCheckTryCatch
  \/ DoRun
  \/ DoFinishRun
  \/ DoBody
  \/ DoValueCoercion
SpecLock == InitLock /\ [][NextLock]_vars

InitCollabs == IdleAdapter /\ InitPath /\ AllCreated /\ InitHost
NextCollabs ==
  \/ DoBeginGet
  \/ DoGetTest
  \/ DoGetReset
  \/ DoGetReturn
  \/ DoSet
SpecCollabs == InitCollabs /\ [][NextCollabs]_vars

\* host threads that call the getters of one fresh engine at the same time
InitCollabsRace == IdleAdapter /\ InitPath /\ AllCreated /\ InitHost
NextCollabsRace ==
  \/ DoBeginGetConcurrent
  \/ DoGetTest
  \/ DoGetReset
  \/ DoGetReturn
SpecCollabsRace == InitCollabsRace /\ [][NextCollabsRace]_vars

InitValues ==
  IdleAdapter /\ InitPath /\ AllCreated /\ InitThreads /\ InitCollab
  /\ InitHandle
NextValues ==
  \/ DoAsList
  \/ DoGetProperty
  \/ DoSetProperty
  \/ DoGetClass
  \/ DoGetOwnPropertyNames
  \/ DoCallFunction
  \/ DoCoerce
SpecValues == InitValues /\ [][NextValues]_vars

\* ================================================================= claims
Delivered(r) == {req[r].cbs[i] : i \in DOMAIN req[r].cbs}
Dispatched(r) == req[r].pc \in {"spawned", "cbTry", "cbFinal", "exit", "done",
                                "terminate"}
EngineFailed(r) == req[r].threw \in {"std", "other"}

\* C1: the callback of a request is invoked at most once, and never with
\* both a success (empty error) and a failure (non-empty error)
C1_CallbackAtMostOnce ==
  \A r \in Reqs :
    /\ req[r].calls <= 1
    /\ ~(\E a \in Delivered(r), b \in Delivered(r) : a.err = <<>> /\ b.err # <<>>)

\* C2: every dispatched request eventually has its callback invoked, unless
\* the process was terminated meanwhile (its worker is then never scheduled
\* again); when the engine threw something that is no standard exception the
\* callback receives the operation's generic, non-empty message
C2_CallbackEventually ==
  /\ \A r \in Reqs : Dispatched(r) ~> (req[r].calls >= 1 \/ aborted)
  /\ [](\A r \in Reqs :
          req[r].threw = "other" /\ req[r].pc \in {"exit", "terminate"}
            => /\ Len(req[r].cbs) = 1
               /\ req[r].cbs[1].err = UnknownError(req[r])
               /\ req[r].cbs[1].err # <<>>)

C2_Witness ==
  \E r \in Reqs : /\ req[r].threw = "other"
                  /\ req[r].pc = "exit"
                  /\ req[r].cbs = <<Invocation(UnknownError(req[r]), <<>>,
                                               DefaultStat)>>

\* C3: the error a callback receives is empty exactly when the engine call
\* did not throw; after a failed engine call Read's callback receives an
\* empty buffer and Stat's the default StatResult
C3_ErrorIffEngineThrew ==
  \A r \in Reqs : \A c \in Delivered(r) :
    /\ (c.err = <<>>) <=> (req[r].threw = "no")
    /\ EngineFailed(r) /\ req[r].op = "Read" => c.buf = <<>>
    /\ EngineFailed(r) /\ req[r].op = "Stat" => c.stat = DefaultStat

\* C4: the call returns before the engine call is made, no engine failure
\* is raised at the call site, and once the worker is through an engine
\* failure has been handed to the callback as a non-empty error
C4_NoFailureAtCallSite ==
  /\ [](\A r \in Reqs :
          /\ req[r].site \in {"none", "returned", "system_error"}
          /\ req[r].threw # "none" => req[r].site = "returned"
          /\ EngineFailed(r) /\ req[r].pc \in {"exit", "terminate"}
               => \E c \in Delivered(r) : c.err # <<>>)
  /\ [][\A r \in Reqs :
          req[r].site = "none" /\ req'[r].site # "none"
            => req'[r].threw = "none" /\ fs' = fs]_vars

C4_Witness ==
  \E r \in Reqs : /\ req[r].site = "returned"
                  /\ req[r].threw = "std"
                  /\ req[r].pc = "exit"
                  /\ \E c \in Delivered(r) : c.err # <<>>

\* C5: a Write whose file could not be created, opened or fully written
\* reports a failure: the engine throws and the callback's error is not empty
C5_WriteFailsOnOsError ==
  \A r \in Reqs :
    req[r].op = "Write" /\ req[r].errno \notin {"none", "0"}
      => /\ req[r].threw = "std"
         /\ \A c \in Delivered(r) : c.err # <<>>

\* C6: a Read dispatched after the callback of a Write to the same path fired
\* with an empty error, nothing else touching the path from the Write's
\* dispatch on, delivers an empty error and exactly the bytes written
\* (DefaultFileSystemSync being the engine: no injected fault)
C6_WriteReadRoundTrip ==
  \A p \in Paths :
    track[p].st = "reading" /\ req[track[p].by].threw # "other"
      => \A c \in Delivered(track[p].by) : c.err = <<>> /\ c.buf = track[p].data

\* C7: Stat of a path at which nothing exists delivers the default
\* StatResult and an empty error; a non-empty error is delivered only for
\* an OS error other than the target's absence
C7_StatAbsentIsNoFailure ==
  \A r \in Reqs :
    req[r].op = "Stat" /\ req[r].threw # "other" =>
      /\ req[r].errno \in {"ENOENT", "ENOTDIR"}
           => \A c \in Delivered(r) : c = Invocation(<<>>, <<>>, DefaultStat)
      /\ \A c \in Delivered(r) :
           c.err # <<>> => req[r].errno \notin {"0", "ENOENT", "ENOTDIR"}

\* ---------------------------------------------------------------- Resolve
EndsInSeparator(s) == Len(s) > 0 /\ s[Len(s)] = PATH_SEPARATOR
IsAbsolute(path) == Len(path) > 0 /\ path[1] = PATH_SEPARATOR
\* the two characters around position n of s are both separators
DoubledAt(s, n) ==
  n >= 1 /\ n < Len(s) /\ s[n] = PATH_SEPARATOR /\ s[n + 1] = PATH_SEPARATOR

\* C8 as stated: a path that is not absolute comes back as basePath, a
\* separator unless basePath ends in one, and the path; an absolute path
\* comes back unchanged; no doubled separator where the two are joined
C8_ResolveAsStated ==
  pathCall.op = "Resolve" =>
    LET b == pathCall.base
        p == pathCall.arg
    IN IF IsAbsolute(p)
       THEN pathCall.result = p
       ELSE /\ pathCall.result =
                 b \o (IF EndsInSeparator(b) THEN <<>> ELSE <<PATH_SEPARATOR>>) \o p
            /\ ~DoubledAt(pathCall.result, Len(b))
            /\ ~DoubledAt(pathCall.result, Len(b) + 1)

\* C8 amended: with an empty base path, an empty path or an absolute path
\* the result is the path unchanged; otherwise it is basePath, a separator
\* (always inserted) and the path, which has no doubled separator at the
\* join whenever basePath does not end in a separator
C8_ResolveAmended ==
  pathCall.op = "Resolve" =>
    LET b == pathCall.base
        p == pathCall.arg
    IN IF b = <<>> \/ p = <<>> \/ IsAbsolute(p)
       THEN pathCall.result = p
       ELSE /\ Len(pathCall.result) = Len(b) + 1 + Len(p)
            /\ SubSeq(pathCall.result, 1, Len(b)) = b
            /\ pathCall.result[Len(b) + 1] = PATH_SEPARATOR
            /\ SubSeq(pathCall.result, Len(b) + 2, Len(pathCall.result)) = p
            /\ ~EndsInSeparator(b)
                 => /\ ~DoubledAt(pathCall.result, Len(b))
                    /\ ~DoubledAt(pathCall.result, Len(b) + 1)

C8_Witness ==
  /\ pathCall.op = "Resolve"
  /\ pathCall.base # <<>>
  /\ ~EndsInSeparator(pathCall.base)
  /\ IsRelative(pathCall.arg)
  /\ pathCall.result = pathCall.base \o <<PATH_SEPARATOR>> \o pathCall.arg

\* C9: SetBasePath is defined for every argument (it stores a base path and
\* raises nothing), and after SetBasePath(p + separator), p not ending in a
\* separator, every Resolve gives what it gives with base path p
C9_SetBasePathStripsOne ==
  pathCall.op = "SetBasePath" =>
    /\ pathCall.status = "ok"
    /\ \A p \in PathStrings :
         pathCall.arg = p \o <<PATH_SEPARATOR>> /\ ~EndsInSeparator(p)
           => \A q \in PathStrings : Resolve(basePath, q) = Resolve(p, q)

\* --------------------------------------------------------------- JsEngine
\* C10: an invocation whose engine is destroyed ends in FromArguments with
\* no engine; one that gets past FromArguments holds the very engine that
\* registered the callback, and that engine is alive
C10_FromArgumentsResolvesFirst ==
  \A i \in Invs :
    /\ inv[i].pc \in {"convert", "native"}
         => inv[i].engine = reg[inv[i].reg] /\ Alive(inv[i].engine)
    /\ inv[i].pc = "gone"
         => inv[i].engine = NoEngine /\ Destroyed(reg[inv[i].reg])

C10_Witness ==
  \E i \in Invs : inv[i].pc = "gone" /\ Destroyed(reg[inv[i].reg])

\* a strong holder of engine e remains: the host's JsEnginePtr, a JsValue,
\* or the JsEnginePtr and argument values of a callback running on it
HasStrongHolder(e) ==
  \/ engine[e].host
  \/ engine[e].values > 0
  \/ \E i \in Invs : inv[i].engine = e /\ inv[i].pc \in {"convert", "native"}

\* C11: a created engine is alive exactly while a strong holder remains; a
\* registration is no holder: it neither keeps the engine alive nor lets it
\* be destroyed while a JsValue of it exists
C11_AliveIffStrongHolder ==
  \A e \in Engines :
    /\ engine[e].state # "unborn" => (Alive(e) <=> HasStrongHolder(e))
    /\ engine[e].state = "unborn" => ~HasStrongHolder(e)
    /\ Destroyed(e) => engine[e].values = 0

C11_Witness ==
  \E e \in Engines :
    /\ \E k \in Regs : reg[k] = e /\ Destroyed(e)
    /\ \E d \in Engines : Alive(d) /\ ~engine[d].host /\ engine[d].values > 0

\* ------------------------------------------------------------ context lock
\* the call has constructed its Context and not yet destroyed it
HasContext(f) == f.op \in ContextOps \cup ValueOps /\ f.pc # "context"
Nested(t) == Depth(t) > 1

\* C12: a thread that is touching the runtime in Evaluate, NewValue,
\* NewObject, NewCallback, ConvertArguments or Gc holds the lock, so no two
\* threads are inside the runtime at the same time
C12_OneThreadInRuntime ==
  \A t \in Threads :
    InRuntime(t) =>
      /\ lockOwner = t
      /\ \A u \in Threads \ {t} : ~InRuntime(u)

\* C13: a call made by a native callback inside Evaluate gets through the
\* Context constructor at once, no other thread has a Context while the
\* nesting lasts, and the lock stays with a thread as long as any of its
\* calls has a Context
C13_LockReentrant ==
  \A t \in Threads :
    /\ Nested(t) => lockOwner = t
    /\ (Nested(t) /\ At(t, {"context"})) => ENABLED EnterContext(t)
    /\ Nested(t) =>
         \A u \in Threads \ {t} :
           \A i \in 1..Depth(u) : ~HasContext(thr[u].stack[i])
    /\ (\E i \in 1..Depth(t) : HasContext(thr[t].stack[i])) => lockOwner = t

C13_Witness ==
  \E t \in Threads :
    /\ Nested(t)
    /\ HasContext(Top(t))
    /\ ~Top(t).hasLock
    /\ \E u \in Threads \ {t} : At(u, {"context"})

\* ---------------------------------------------------------------- Evaluate
\* Evaluate returns on thread t in this step
EvaluateReturns(t) ==
  /\ At(t, {"checkRun"})
  /\ Depth(t)' < Depth(t)
  /\ thr'[t].out.kind = "JsValue"

EvaluateOutcome ==
  \A t \in Threads :
    /\ \A i \in 1..Depth(t) :
         thr[t].stack[i].pc \in {"run", "running"}
           => ~thr[t].stack[i].caught.thrown
    /\ thr[t].out.op = "Evaluate" =>
         /\ thr[t].out.kind \in {"JsValue", "JsError"}
         /\ thr[t].out.kind = "JsValue" =>
              /\ thr[t].out.engine \in Engines
              /\ thr[t].out.ran
              /\ ~thr[t].out.caught.thrown
              /\ thr[t].out.text = <<>>
         /\ thr[t].out.kind = "JsError" =>
              /\ thr[t].out.engine = NoEngine
              /\ thr[t].out.caught.thrown
              /\ thr[t].out.text[1] = thr[t].out.caught.text
              /\ IF thr[t].out.caught.message
                 THEN /\ Len(thr[t].out.text) = 5
                      /\ thr[t].out.text[2] = " at "
                      /\ thr[t].out.text[3] = thr[t].out.caught.resource
                      /\ thr[t].out.text[4] = ":"
                      /\ thr[t].out.text[5] = thr[t].out.caught.line
                 ELSE Len(thr[t].out.text) = 1

\* C14: Evaluate ends with a JsValue of the engine it was called on or with
\* a JsError and no value; the script of a failed compilation is never run;
\* a value is returned only by a script that ran and threw nothing; the
\* JsError's text is the exception's text, followed by " at ", the resource
\* name, ":" and the line number when there is a message, and by nothing
\* when there is none
C14_EvaluateValueOrJsError ==
  /\ []EvaluateOutcome
  /\ [][\A t \in Threads :
          EvaluateReturns(t) => thr'[t].out.engine = thr[t].this]_vars

C14_Witness ==
  \E t \in Threads, u \in Threads :
    /\ thr[t].out.kind = "JsError"
    /\ ~thr[t].out.ran
    /\ thr[t].out.caught.message
    /\ thr[u].out.kind = "JsError"
    /\ thr[u].out.ran

\* ----------------------------------------------------------- collaborators
\* C15: a Set with an empty pointer ends in the runtime_error of its
\* collaborator and leaves all three members as they were
C15_SetNullRejected ==
  (collabCall.op = "Set" /\ collabCall.arg = Null) =>
    /\ collabCall.status = CannotBeNull(collabCall.c)
    /\ collab = collabCall.members
    /\ collab[collabCall.c] = collabCall.before

C15_Witness ==
  /\ collabCall.op = "Set"
  /\ collabCall.arg = Null
  /\ collabCall.before \in Injected
  /\ \E c \in Collaborators : collab[c] = Default(1)

\* C16: with calls made one at a time, a Get returns no empty pointer; it
\* returns the object of the last accepted Set if there was one and the one
\* default object otherwise; a default is constructed only by a Get that
\* finds the member empty, at most once, and never in place of an injected
\* object
C16_LazyDefault ==
  /\ \A c \in Collaborators :
       /\ made[c] <= 1
       /\ lastSet[c] # Null => collab[c] = lastSet[c]
  /\ collabCall.op = "Get" =>
       /\ collabCall.result # Null
       /\ collabCall.result = IF lastSet[collabCall.c] # Null
                              THEN lastSet[collabCall.c] ELSE Default(1)
       /\ collabCall.constructed <=> collabCall.before = Null

C16_Witness ==
  /\ collabCall.op = "Get"
  /\ collabCall.result = Default(1)
  /\ ~collabCall.constructed
  /\ \E c \in Collaborators : lastSet[c] # Null /\ made[c] = 1

\* ---------------------------------------------------------------- JsValue
CountTrue(bools) == Cardinality({i \in DOMAIN bools : bools[i]})
ObjectOnlyOps == {"AsList", "GetProperty", "SetProperty", "GetClass",
                  "GetOwnPropertyNames", "Call"}

\* C17: of IsUndefined, IsNull, IsString, IsBool, IsNumber exactly one is
\* true and IsObject is false, or none is true and IsObject is true; IsArray
\* and IsFunction are true of objects only; the eight answers are those
\* given when the JsValue was created, whatever was done to it since
C17_KindPredicates ==
  LET v == handle.v
      five == <<IsUndefined(v), IsNull(v), IsString(v), IsBool(v),
                IsNumber(v)>>
  IN /\ IF IsObject(v) THEN CountTrue(five) = 0 ELSE CountTrue(five) = 1
     /\ IsArray(v) => IsObject(v)
     /\ IsFunction(v) => IsObject(v)
     /\ Answers(v) = handle.born

C17_Witness ==
  /\ IsFunction(handle.v)
  /\ valCall.op = "SetProperty"
  /\ handle.props # valCall.before.props

\* C18: the six operations of objects fail on undefined, null, strings,
\* numbers and booleans; Call fails on what is no function, AsList on what
\* is no array; a failed operation leaves the JsValue as it was
C18_ObjectOpsFailOnOthers ==
  /\ (valCall.op \in ObjectOnlyOps /\ ~IsObject(valCall.before.v))
       => valCall.status = "error"
  /\ (valCall.op = "Call" /\ ~IsFunction(valCall.before.v))
       => valCall.status = "error"
  /\ (valCall.op = "AsList" /\ ~IsArray(valCall.before.v))
       => valCall.status = "error"
  /\ valCall.status = "error" => handle = valCall.before

C18_Witness ==
  /\ valCall.op = "AsList"
  /\ valCall.before.v.kind = "object"
  /\ valCall.status = "error"
  /\ handle.props["foo"].kind # "undefined"

\* C19: AsString and AsInt of an object whose toString and valueOf throw
\* end without an exception, with the empty string and with 0, and the
\* thread that is out of its calls again holds the lock no longer
C19_ThrowingCoercionDegrades ==
  \A t \in Threads :
    (thr[t].out.op \in ValueOps /\ thr[t].out.caught.thrown) =>
      /\ thr[t].out.kind = "coerced"
      /\ thr[t].out.op = "AsString" => thr[t].out.text = <<"">>
      /\ thr[t].out.op = "AsInt" => thr[t].out.text = <<0>>
      /\ Depth(t) = 0 => lockOwner # t

\* after the coercion that threw, the other thread got the lock and its
\* script ran to the end
C19_Witness ==
  \E t \in Threads, u \in Threads :
    /\ thr[t].out.op = "AsString"
    /\ thr[t].out.caught.thrown
    /\ Depth(t) = 0
    /\ lockOwner = u
    /\ At(u, {"checkRun"})
    /\ ~Top(u).caught.thrown

\* ------------------------------------------------------- lock on exit paths
\* C20: a thread holds the lock exactly while one of its calls has a Context
\* whose locker locked, and there is one such call at most: whichever way a
\* call ends, by return or by JsError, the lock it took is given back, and a
\* thread that is out of its calls holds no lock
C20_LockReleasedOnExit ==
  \A t \in Threads :
    /\ lockOwner = t <=> \E i \in 1..Depth(t) : thr[t].stack[i].hasLock
    /\ Cardinality({i \in 1..Depth(t) : thr[t].stack[i].hasLock}) <= 1
    /\ Depth(t) = 0 => lockOwner # t

\* after an Evaluate that failed, the other thread took the lock
C20_Witness ==
  \E t \in Threads, u \in Threads :
    /\ thr[t].out.op = "Evaluate"
    /\ thr[t].out.kind = "JsError"
    /\ Depth(t) = 0
    /\ lockOwner = u
    /\ At(u, {"body", "compile"})
    /\ Top(u).hasLock

\* C21: when host threads call a getter concurrently on an engine that holds
\* no collaborator yet, exactly one default object is constructed for the
\* member and every Get that returns gives that one object
C21_OneDefaultUnderRace ==
  /\ \A c \in Collaborators : made[c] <= 1
  /\ collabCall.op = "Get" => collabCall.result = Default(1)

\* C22: no worker started by Read, Write, Move, Remove or Stat goes through
\* the adapter or its engine after the adapter has been destroyed: however
\* destruction interleaves with requests in flight, every engine call runs
\* while the adapter is alive
C22_NoUseAfterDestroy == ~adapter.usedFreed

====
